---- MODULE Spec2Model ----
(***************************************************************************)
(* A model of data.py: process_csv (one eye-tracker session file) and      *)
(* process_data (all session files below a folder).                        *)
(*                                                                         *)
(* Strings are sequences of one-character strings, so that the regular     *)
(* expression, the glob pattern and the string concatenations of the code  *)
(* are computed character by character.  Coordinates are in tenths: the    *)
(* float 0.5 is 5 and the float 1 is 10.                                   *)
(***************************************************************************)
EXTENDS Integers, Sequences, FiniteSets, TLC

VARIABLES
    root_exists,                    \* whether csv_folders names an existing folder
    fs,                             \* the paths below csv_folders, each a sequence of components
    calculate_fixation_duration,    \* parameter of process_data / process_csv
    minimum_number_of_fixations,    \* parameter of process_data / process_csv
    is_new_data,                    \* parameter of process_data / process_csv
    pc,                             \* the statement the run is at
    files,                          \* what glob.glob returned, in its order
    idx,                            \* how many of files the for loop has taken
    file_name,                      \* process_csv: its file_name argument
    block_number,                   \* process_csv: first regex group
    user_id,                        \* process_csv: second regex group
    df_,                            \* process_csv: the table read_csv returned
    df,                             \* process_csv: the table being cleaned
    all_dataframes,                 \* process_data: the list of cleaned tables
    result,                         \* <<>> while nothing is returned, <<table>> once returned
    error,                          \* "none", or the exception that ended the run
    io                              \* the kinds of file I/O done so far

vars == <<root_exists, fs, calculate_fixation_duration, minimum_number_of_fixations,
          is_new_data, pc, files, idx, file_name, block_number, user_id, df_, df,
          all_dataframes, result, error, io>>

----------------------------------------------------------------------------
(* Bounds of the model *)

\* most paths below csv_folders
MaxFiles == 2
\* longest table a session file of a process_data run holds
MaxRows == 2
\* largest minimum_number_of_fixations
MaxMin == 2
\* most pieces a file name of the extractor's check is made of
MaxPieces == 2
\* longest table handed to the row filter alone
MaxFilterRows == 2
\* longest table handed to the group filter alone
MaxGroupRows == 3

----------------------------------------------------------------------------
(* Characters and strings *)

UpperCase == <<"A", "B", "C", "D", "E", "F", "G", "H", "I", "J", "K", "L", "M",
               "N", "O", "P", "Q", "R", "S", "T", "U", "V", "W", "X", "Y", "Z">>
LowerCase == <<"a", "b", "c", "d", "e", "f", "g", "h", "i", "j", "k", "l", "m",
               "n", "o", "p", "q", "r", "s", "t", "u", "v", "w", "x", "y", "z">>
Digits == {"0", "1", "2", "3", "4", "5", "6", "7", "8", "9"}

\* re.IGNORECASE folds the case of letters
Lower(c) ==
    IF \E i \in DOMAIN UpperCase : UpperCase[i] = c
    THEN LowerCase[CHOOSE i \in DOMAIN UpperCase : UpperCase[i] = c]
    ELSE c

Slash == <<"/">>
DotCsv == <<".", "c", "s", "v">>
BlockWord == <<"b", "l", "o", "c", "k", " ">>

----------------------------------------------------------------------------
(* The regular expression (\d\d)_KH(\d\d\d)_fixations\.csv, re.IGNORECASE *)

\* one token per character the pattern consumes; "\\d" is the digit class
Pattern == <<"\\d", "\\d", "_", "k", "h", "\\d", "\\d", "\\d", "_",
             "f", "i", "x", "a", "t", "i", "o", "n", "s", ".", "c", "s", "v">>

PatternLen == Len(Pattern)

\* a character against one token of the pattern
TokenMatches(tok, c) ==
    IF tok = "\\d" THEN c \in Digits ELSE Lower(c) = tok

\* the pattern matches s at position i
MatchAt(s, i) ==
    /\ i >= 1
    /\ i + PatternLen - 1 <= Len(s)
    /\ \A j \in 1..PatternLen : TokenMatches(Pattern[j], s[i + j - 1])

\* the two groups of the match at position i
Groups(s, i) == <<SubSeq(s, i, i + 1), SubSeq(s, i + 5, i + 7)>>

\* re.findall: the non-overlapping matches, scanning from the left
RECURSIVE FindAllFrom(_, _)
FindAllFrom(s, i) ==
    IF i + PatternLen - 1 > Len(s) THEN <<>>
    ELSE IF MatchAt(s, i) THEN <<Groups(s, i)>> \o FindAllFrom(s, i + PatternLen)
    ELSE FindAllFrom(s, i + 1)

FindAll(s) == FindAllFrom(s, 1)

----------------------------------------------------------------------------
(* File names and paths *)

N07 == <<"0", "7", "_", "k", "h", "0", "4", "2", "_",
         "f", "i", "x", "a", "t", "i", "o", "n", "s", ".", "c", "s", "v">>
N05 == <<"0", "5", "_", "K", "H", "0", "0", "1", "_",
         "f", "i", "x", "a", "t", "i", "o", "n", "s", ".", "c", "s", "v">>
NUpper == <<"1", "2", "_", "K", "H", "0", "0", "1", "_",
            "F", "I", "X", "A", "T", "I", "O", "N", "S", ".", "C", "S", "V">>
NShort == <<"7", "_", "k", "h", "0", "4", "2", "_",
            "f", "i", "x", "a", "t", "i", "o", "n", "s", ".", "c", "s", "v">>
NNoDot == <<"0", "7", "_", "k", "h", "0", "4", "2", "_",
            "f", "i", "x", "a", "t", "i", "o", "n", "s", "_", "c", "s", "v">>
NPrefix == <<"0", "7", "_", "a", "b", "0", "4", "2", "_",
             "f", "i", "x", "a", "t", "i", "o", "n", "s", ".", "c", "s", "v">>
NotesCsv == <<"n", "o", "t", "e", "s", ".", "c", "s", "v">>
ReadmeTxt == <<"r", "e", "a", "d", "m", "e", ".", "t", "x", "t">>
Kh042 == <<"k", "h", "0", "4", "2">>
Kh001 == <<"k", "h", "0", "0", "1">>
Root == <<"d", "a", "t", "a">>

\* the pieces the file names of the extractor's check are concatenated from
Pieces == {N07, NUpper, NShort, NNoDot, NPrefix, NotesCsv, <<"_">>, Kh042 \o Slash}

RECURSIVE NamesOf(_)
NamesOf(n) ==
    IF n = 0 THEN {<<>>}
    ELSE LET shorter == NamesOf(n - 1)
         IN  shorter \cup {s \o p : s \in shorter, p \in Pieces}

Names == NamesOf(MaxPieces)

\* the paths a folder of the model may hold: session files directly in it,
\* session files one folder down, and files that are no session files
PathPool == {<<N07>>, <<N05>>, <<NotesCsv>>, <<ReadmeTxt>>,
             <<Kh042, N07>>, <<Kh001, N07>>, <<Kh042, NotesCsv>>}

\* os.path.join(csv_folders, component, ...)
RECURSIVE JoinPath(_, _)
JoinPath(base, p) ==
    IF p = <<>> THEN base ELSE JoinPath(base \o Slash \o Head(p), Tail(p))

EndsWith(s, suffix) ==
    /\ Len(s) >= Len(suffix)
    /\ SubSeq(s, Len(s) - Len(suffix) + 1, Len(s)) = suffix

\* fnmatch of one path component against "*.csv"; glob's "*" skips hidden names
MatchesStarCsv(name) == EndsWith(name, DotCsv) /\ name[1] # "."

\* fnmatch of one path component against "*"
MatchesStar(name) == Len(name) > 0 /\ name[1] # "."

\* a mutant: the layout flag ignored, the new layout's pattern always used
GlobMatchesFlat(paths, new) ==
    {JoinPath(Root, p) : p \in {q \in paths : Len(q) = 1 /\ MatchesStarCsv(q[1])}}

\* glob.glob(os.path.join(csv_folders, "*.csv")) for the new layout,
\* glob.glob(os.path.join(csv_folders, "*", "*.csv")) for the legacy one
GlobMatches(paths, new) ==
    IF new
    THEN {JoinPath(Root, p) : p \in {q \in paths : Len(q) = 1 /\ MatchesStarCsv(q[1])}}
    ELSE {JoinPath(Root, p) :
            p \in {q \in paths : Len(q) = 2 /\ MatchesStar(q[1]) /\ MatchesStarCsv(q[2])}}

\* glob.glob returns the matches in the directory's order, which is arbitrary
RECURSIVE Orderings(_)
Orderings(S) ==
    IF S = {} THEN {<<>>}
    ELSE UNION {{<<x>> \o rest : rest \in Orderings(S \ {x})} : x \in S}

----------------------------------------------------------------------------
(* Tables *)

Img1 == <<"i", "m", "g", "1">>
Img2 == <<"i", "m", "g", "2">>

\* the float 0.5 and the float 1, in tenths
Half == 5
One == 10

RequiredColumns == {"MEDIA_NAME", "BPOGX", "BPOGY", "BPOGV"}

RawRow(m, x, y, v) == [MEDIA_NAME |-> m, BPOGX |-> x, BPOGY |-> y, BPOGV |-> v]

\* the rows the session files of a process_data run are made of: two valid
\* samples of two images and the sensor's placeholder sample
RowPool == {RawRow(Img1, 2, 3, 1), RawRow(Img2, 4, 6, 1), RawRow(Img1, Half, Half, 1)}

\* the rows handed to the row filter alone: every combination of a boundary,
\* an interior and the placeholder coordinate with the validity codes 0, 1, 2
Coordinates == {0, 3, Half, One}
FilterRowPool == {RawRow(Img1, x, y, v) : x \in Coordinates, y \in Coordinates, v \in {0, 1, 2}}

\* the rows handed to the group filter alone: valid samples of two images
GroupRowPool == {RawRow(m, c[1], c[2], 1) : m \in {Img1, Img2}, c \in {<<2, 3>>, <<4, 6>>}}

RECURSIVE SeqsUpTo(_, _)
SeqsUpTo(S, n) ==
    IF n = 0 THEN {<<>>}
    ELSE LET shorter == SeqsUpTo(S, n - 1)
         IN  shorter \cup {Append(s, r) : s \in {t \in shorter : Len(t) = n - 1}, r \in S}

\* what pd.read_csv returns: the columns of the header row and the rows
Table(rows) == [cols |-> RequiredColumns, rows |-> rows]

\* a file whose header row has no BPOGV column
NoValidityTable ==
    [cols |-> {"MEDIA_NAME", "BPOGX", "BPOGY"},
     rows |-> <<[MEDIA_NAME |-> Img1, BPOGX |-> 2, BPOGY |-> 3]>>]

CsvContents == {Table(rows) : rows \in SeqsUpTo(RowPool, MaxRows)} \cup {NoValidityTable}

----------------------------------------------------------------------------
(* process_csv: the row filters, lines 77-81 *)

\* df[df["BPOGV"] == 1]
FilterValid(t) == SelectSeq(t, LAMBDA r : r.BPOGV = 1)

\* df[~((df["BPOGX"] == 0.5) & (df["BPOGY"] == 0.5))]
FilterPlaceholder(t) == SelectSeq(t, LAMBDA r : ~(r.BPOGX = Half /\ r.BPOGY = Half))

\* a mutant: the range test with the boundaries included
FilterRangeClosed(t) ==
    SelectSeq(t, LAMBDA r : r.BPOGX >= 0 /\ r.BPOGY >= 0 /\ r.BPOGX <= One /\ r.BPOGY <= One)

\* df[(df["BPOGX"] > 0) & (df["BPOGY"] > 0) & (df["BPOGX"] < 1) & (df["BPOGY"] < 1)]
FilterRange(t) ==
    SelectSeq(t, LAMBDA r : r.BPOGX > 0 /\ r.BPOGY > 0 /\ r.BPOGX < One /\ r.BPOGY < One)

----------------------------------------------------------------------------
(* process_csv: the new columns and the index, lines 82-89 *)

\* a mutant: the block prefix left out of the legacy layout's image name
ImageNameNoPrefix(new, block, media) == media

\* df["MEDIA_NAME"] for the new layout, f"block {block_number}/" + df["MEDIA_NAME"] else
ImageName(new, block, media) ==
    IF new THEN media ELSE BlockWord \o block \o Slash \o media

\* image_name and user_id added and made the index, MEDIA_NAME and BPOGV
\* dropped, BPOGX and BPOGY renamed x and y
Normalize(t, new, block, user) ==
    [i \in 1..Len(t) |->
        [image_name |-> ImageName(new, block, t[i].MEDIA_NAME),
         user_id    |-> user,
         x          |-> t[i].BPOGX,
         y          |-> t[i].BPOGY]]

----------------------------------------------------------------------------
(* process_csv: the group filter, lines 90-93 *)

Key(r) == <<r.image_name, r.user_id>>

\* len(x) of the group of key k
GroupSize(t, k) == Cardinality({i \in 1..Len(t) : Key(t[i]) = k})

\* a mutant: no group is dropped
GroupFilterKeepAll(t, min) == t

\* a mutant: a group is cut down to its first min rows instead of being kept whole
GroupFilterTruncate(t, min) ==
    LET rank(i) == Cardinality({j \in 1..i : Key(t[j]) = Key(t[i])})
        keep == {i \in 1..Len(t) : GroupSize(t, Key(t[i])) >= min /\ rank(i) <= min}
        F[i \in 0..Len(t)] ==
            IF i = 0 THEN <<>> ELSE IF i \in keep THEN Append(F[i - 1], t[i]) ELSE F[i - 1]
    IN  F[Len(t)]

\* df.groupby(["image_name", "user_id"]).filter(lambda x: len(x) >= minimum_number_of_fixations)
GroupFilter(t, min) == SelectSeq(t, LAMBDA r : GroupSize(t, Key(r)) >= min)

----------------------------------------------------------------------------
(* process_data: pd.concat, line 139 *)

\* a mutant: a row already in the corpus is not added again
RECURSIVE ConcatDedup(_)
ConcatDedup(tables) ==
    IF tables = <<>> THEN <<>>
    ELSE LET before == ConcatDedup(SubSeq(tables, 1, Len(tables) - 1))
             seen   == {before[i] : i \in 1..Len(before)}
         IN  before \o SelectSeq(tables[Len(tables)], LAMBDA r : r \notin seen)

\* pd.concat(all_dataframes): the rows of the tables, in the order of the list
RECURSIVE Concat(_)
Concat(tables) ==
    IF tables = <<>> THEN <<>> ELSE Head(tables) \o Concat(Tail(tables))

----------------------------------------------------------------------------
(* The run *)

Raise(e) == pc' = "raised" /\ error' = e

\* process_data, lines 122-128: the pattern of the layout and glob.glob
Glob ==
    /\ pc = "glob"
    /\ io' = io \cup {"glob"}
    /\ \E order \in Orderings(GlobMatches(fs, is_new_data)) : files' = order
    /\ pc' = "for"
    /\ UNCHANGED <<root_exists, fs, calculate_fixation_duration,
                   minimum_number_of_fixations, is_new_data, idx, file_name,
                   block_number, user_id, df_, df, all_dataframes, result, error>>

\* process_data, lines 128-130: the for loop takes the next file and calls process_csv
ForNext ==
    /\ pc = "for"
    /\ idx < Len(files)
    /\ idx' = idx + 1
    /\ file_name' = files[idx + 1]
    /\ pc' = "findall"
    /\ UNCHANGED <<root_exists, fs, calculate_fixation_duration,
                   minimum_number_of_fixations, is_new_data, files, block_number,
                   user_id, df_, df, all_dataframes, result, error, io>>

\* a mutant: a file whose name does not match is skipped instead of ending the run
ExtractMetadataSkip ==
    /\ pc = "findall"
    /\ LET m == FindAll(file_name)
       IN  IF m = <<>>
           THEN /\ pc' = "for"
                /\ UNCHANGED <<block_number, user_id, error>>
           ELSE /\ block_number' = m[1][1]
                /\ user_id' = m[1][2]
                /\ pc' = "read_csv"
                /\ error' = error
    /\ UNCHANGED <<root_exists, fs, calculate_fixation_duration,
                   minimum_number_of_fixations, is_new_data, files, idx, file_name,
                   df_, df, all_dataframes, result, io>>

\* process_csv, lines 67-69: re.findall(...)[0]; the index raises IndexError
\* on an empty list and takes the first match of any longer one
ExtractMetadata ==
    /\ pc = "findall"
    /\ LET m == FindAll(file_name)
       IN  IF m = <<>>
           THEN /\ Raise("IndexError")
                /\ UNCHANGED <<block_number, user_id>>
           ELSE /\ block_number' = m[1][1]
                /\ user_id' = m[1][2]
                /\ pc' = "read_csv"
                /\ error' = error
    /\ UNCHANGED <<root_exists, fs, calculate_fixation_duration,
                   minimum_number_of_fixations, is_new_data, files, idx, file_name,
                   df_, df, all_dataframes, result, io>>

\* process_csv, lines 70-71: pd.read_csv, then the four columns are selected;
\* the selection raises KeyError when one of them is missing
ReadCsv ==
    /\ pc = "read_csv"
    /\ io' = io \cup {"read"}
    /\ \E t \in CsvContents :
          /\ df_' = t
          /\ IF RequiredColumns \subseteq t.cols
             THEN /\ df' = t.rows
                  /\ pc' = "duration"
                  /\ error' = error
             ELSE /\ df' = df
                  /\ Raise("KeyError")
    /\ UNCHANGED <<root_exists, fs, calculate_fixation_duration,
                   minimum_number_of_fixations, is_new_data, files, idx, file_name,
                   block_number, user_id, all_dataframes, result>>

\* process_csv, lines 72-76
CheckDuration ==
    /\ pc = "duration"
    /\ IF calculate_fixation_duration
       THEN Raise("NotImplementedError")
       ELSE pc' = "filter" /\ error' = error
    /\ UNCHANGED <<root_exists, fs, calculate_fixation_duration,
                   minimum_number_of_fixations, is_new_data, files, idx, file_name,
                   block_number, user_id, df_, df, all_dataframes, result, io>>

\* process_csv, lines 77-81
FilterRows ==
    /\ pc = "filter"
    /\ df' = FilterRange(FilterPlaceholder(FilterValid(df)))
    /\ pc' = "normalize"
    /\ UNCHANGED <<root_exists, fs, calculate_fixation_duration,
                   minimum_number_of_fixations, is_new_data, files, idx, file_name,
                   block_number, user_id, df_, all_dataframes, result, error, io>>

\* process_csv, lines 82-89
NormalizeTable ==
    /\ pc = "normalize"
    /\ df' = Normalize(df, is_new_data, block_number, user_id)
    /\ pc' = "groupby"
    /\ UNCHANGED <<root_exists, fs, calculate_fixation_duration,
                   minimum_number_of_fixations, is_new_data, files, idx, file_name,
                   block_number, user_id, df_, all_dataframes, result, error, io>>

\* process_csv, lines 90-93, and process_data, line 129: the groups are
\* filtered and the table returned is appended to all_dataframes
GroupPrune ==
    /\ pc = "groupby"
    /\ df' = GroupFilter(df, minimum_number_of_fixations)
    /\ all_dataframes' = Append(all_dataframes, df')
    /\ pc' = "for"
    /\ UNCHANGED <<root_exists, fs, calculate_fixation_duration,
                   minimum_number_of_fixations, is_new_data, files, idx, file_name,
                   block_number, user_id, df_, result, error, io>>

\* a mutant: the list is concatenated without the test for an empty list
FinishNoCheck ==
    /\ pc = "for"
    /\ idx = Len(files)
    /\ result' = <<Concat(all_dataframes)>>
    /\ pc' = "returned"
    /\ UNCHANGED <<root_exists, fs, calculate_fixation_duration,
                   minimum_number_of_fixations, is_new_data, files, idx, file_name,
                   block_number, user_id, df_, df, all_dataframes, error, io>>

\* process_data, lines 137-140, after the last file.  The code stores the
\* concatenation in all_dataframes and returns it; the model keeps the list
\* and holds the returned table in result.
Finish ==
    /\ pc = "for"
    /\ idx = Len(files)
    /\ IF Len(all_dataframes) = 0
       THEN /\ Raise("FileNotFoundError")
            /\ result' = result
       ELSE /\ result' = <<Concat(all_dataframes)>>
            /\ pc' = "returned"
            /\ error' = error
    /\ UNCHANGED <<root_exists, fs, calculate_fixation_duration,
                   minimum_number_of_fixations, is_new_data, files, idx, file_name,
                   block_number, user_id, df_, df, all_dataframes, io>>

----------------------------------------------------------------------------
(* process_data called on a folder *)

Folders == {S \in SUBSET PathPool : Cardinality(S) <= MaxFiles}

Init ==
    /\ root_exists \in BOOLEAN
    /\ fs \in (IF root_exists THEN Folders ELSE {{}})
    /\ calculate_fixation_duration \in BOOLEAN
    /\ minimum_number_of_fixations \in 0..MaxMin
    /\ is_new_data \in BOOLEAN
    /\ pc = "glob"
    /\ files = <<>>
    /\ idx = 0
    /\ file_name = <<>>
    /\ block_number = <<>>
    /\ user_id = <<>>
    /\ df_ = Table(<<>>)
    /\ df = <<>>
    /\ all_dataframes = <<>>
    /\ result = <<>>
    /\ error = "none"
    /\ io = {}

Next ==
    \/ Glob
    \/ ForNext
    \/ ExtractMetadata
    \/ ReadCsv
    \/ CheckDuration
    \/ FilterRows
    \/ NormalizeTable
    \/ GroupPrune
    \/ Finish

Spec == Init /\ [][Next]_vars

----------------------------------------------------------------------------
(* process_csv called on one file name: the metadata extractor alone *)

InitName ==
    /\ root_exists = TRUE
    /\ fs = {}
    /\ calculate_fixation_duration = FALSE
    /\ minimum_number_of_fixations = 0
    /\ is_new_data = TRUE
    /\ pc = "findall"
    /\ files = <<>>
    /\ idx = 0
    /\ file_name \in Names
    /\ block_number = <<>>
    /\ user_id = <<>>
    /\ df_ = Table(<<>>)
    /\ df = <<>>
    /\ all_dataframes = <<>>
    /\ result = <<>>
    /\ error = "none"
    /\ io = {}

NextName == ExtractMetadata

SpecName == InitName /\ [][NextName]_vars

----------------------------------------------------------------------------
(* The row filter alone, on the first file of a new-layout folder *)

InitFilter ==
    /\ root_exists = TRUE
    /\ fs = {<<N07>>}
    /\ calculate_fixation_duration = FALSE
    /\ minimum_number_of_fixations = 0
    /\ is_new_data = TRUE
    /\ pc = "filter"
    /\ files = <<JoinPath(Root, <<N07>>)>>
    /\ idx = 1
    /\ file_name = files[1]
    /\ block_number = FindAll(file_name)[1][1]
    /\ user_id = FindAll(file_name)[1][2]
    /\ \E rows \in SeqsUpTo(FilterRowPool, MaxFilterRows) :
          df_ = Table(rows) /\ df = rows
    /\ all_dataframes = <<>>
    /\ result = <<>>
    /\ error = "none"
    /\ io = {"glob", "read"}

NextFilter == FilterRows

SpecFilter == InitFilter /\ [][NextFilter]_vars

----------------------------------------------------------------------------
(* The group filter alone, on the normalized table of a first file *)

InitGroup ==
    /\ root_exists = TRUE
    /\ is_new_data \in BOOLEAN
    /\ fs = (IF is_new_data THEN {<<N07>>} ELSE {<<Kh042, N07>>})
    /\ calculate_fixation_duration = FALSE
    /\ minimum_number_of_fixations \in 0..(MaxGroupRows + 1)
    /\ pc = "groupby"
    /\ files = <<JoinPath(Root, CHOOSE p \in fs : TRUE)>>
    /\ idx = 1
    /\ file_name = files[1]
    /\ block_number = FindAll(file_name)[1][1]
    /\ user_id = FindAll(file_name)[1][2]
    /\ \E rows \in SeqsUpTo(GroupRowPool, MaxGroupRows) :
          /\ df_ = Table(rows)
          /\ df = Normalize(rows, is_new_data, block_number, user_id)
    /\ all_dataframes = <<>>
    /\ result = <<>>
    /\ error = "none"
    /\ io = {"glob", "read"}

NextGroup == GroupPrune

SpecGroup == InitGroup /\ [][NextGroup]_vars

----------------------------------------------------------------------------
(* The claims *)

Ended == pc \in {"raised", "returned"}

\* the rows of table t whose key is k
RowsOfKey(t, k) == SelectSeq(t, LAMBDA r : <<r.image_name, r.user_id>> = k)

KeysOf(t) == {<<t[i].image_name, t[i].user_id>> : i \in 1..Len(t)}

\* how many rows of table t equal row r
Occurrences(t, r) == Cardinality({i \in 1..Len(t) : t[i] = r})

RECURSIVE SumOver(_, _)
SumOver(f, n) == IF n = 0 THEN 0 ELSE f[n] + SumOver(f, n - 1)

\* C1: with calculate_fixation_duration true, process_data fails with
\* NotImplementedError before any file I/O: once the run has left its first
\* statement it has ended with that error, having neither enumerated the
\* folder nor read a file.
C1_NotImplementedBeforeIO ==
    (calculate_fixation_duration /\ pc # "glob")
        => (pc = "raised" /\ error = "NotImplementedError" /\ io = {})

\* C2: the extractor fails exactly for the file names in which the pattern
\* does not match exactly once, and returns a pair only for exactly one match.
C2_FailsUnlessExactlyOneMatch ==
    (pc # "findall")
        => /\ (Len(FindAll(file_name)) # 1) <=> (pc = "raised" /\ error = "IndexError")
           /\ (pc = "read_csv") => (Len(FindAll(file_name)) = 1)

\* C3: the row filter outputs exactly the rows with validity 1, not at the
\* placeholder (0.5, 0.5), and with both coordinates strictly between 0 and 1,
\* in their order.
C3Keep(r) ==
    /\ r.BPOGV = 1
    /\ ~(r.BPOGX = 5 /\ r.BPOGY = 5)
    /\ 0 < r.BPOGX /\ r.BPOGX < 10
    /\ 0 < r.BPOGY /\ r.BPOGY < 10

C4_MinimumGroupSize ==
    (pc = "returned")
        => \A k \in KeysOf(result[1]) :
              Len(RowsOfKey(result[1], k)) >= minimum_number_of_fixations

\* C4 witness: a corpus is returned under a threshold of two from which the
\* whole table of one session was pruned away while another session's
\* group of two stayed.
C4_Witness ==
    /\ pc = "returned"
    /\ minimum_number_of_fixations = 2
    /\ Len(all_dataframes) = 2
    /\ \E i \in 1..2 : all_dataframes[i] = <<>>
    /\ Len(result[1]) = 2
    /\ Len(df_.rows) = 2
    /\ df = <<>>
    /\ \A i \in 1..2 : C3Keep(df_.rows[i])

\* C5 as stated: a returned corpus has at least one row.
C5_NeverEmpty ==
    (pc = "returned") => (Len(result[1]) > 0)

\* C5 amended: process_data returns only when at least one candidate file
\* was found and every candidate file gave a table; a run that found no
\* candidate file ends in FileNotFoundError.  The returned table may have
\* no row.
C5_ReturnsOnlyWithFiles ==
    /\ (pc = "returned") => (Len(files) >= 1 /\ Len(all_dataframes) = Len(files))
    /\ (Ended /\ Len(files) = 0) => (pc = "raised" /\ error = "FileNotFoundError")

\* C5 witness: a corpus without rows is returned, every row of the file found
\* having been filtered away.
C5_Witness ==
    /\ pc = "returned"
    /\ result[1] = <<>>
    /\ Len(df_.rows) >= 1

\* C6: with calculate_fixation_duration false and no candidate file under
\* the layout (directly in the folder for the new layout, one folder down for
\* the legacy one), the run processes no file, returns nothing and ends in
\* FileNotFoundError after the enumeration.
C6NoCandidate ==
    ~ \E p \in fs :
        /\ Len(p) = (IF is_new_data THEN 1 ELSE 2)
        /\ EndsWith(p[Len(p)], DotCsv)

C6_NoDataFound ==
    (~calculate_fixation_duration /\ C6NoCandidate)
        => /\ pc \in {"glob", "for", "raised"}
           /\ result = <<>>
           /\ (pc = "for") => (files = <<>> /\ ENABLED Finish)
           /\ (pc = "raised") => (error = "FileNotFoundError" /\ io = {"glob"})

\* C6 witness: the legacy layout on a folder that holds a session file
\* directly, so that there is a file but none one folder down.
C6_Witness ==
    /\ pc = "raised"
    /\ error = "FileNotFoundError"
    /\ ~calculate_fixation_duration
    /\ ~is_new_data
    /\ <<N07>> \in fs

\* C7: every row of a session's output has the raw media reference as its
\* image name under the new layout and "block " + block number + "/" + media
\* reference under the legacy one, the block number and the viewer id being
\* the digits of the file's name, and has the x and y of a row that was read.
C7Block == SubSeq(file_name, Len(file_name) - 21, Len(file_name) - 20)
C7Viewer == SubSeq(file_name, Len(file_name) - 16, Len(file_name) - 14)

C7_NormalizedRows ==
    (pc = "for" /\ idx >= 1 /\ Len(all_dataframes) = idx)
        => \A i \in 1..Len(df) :
              \E j \in 1..Len(df_.rows) :
                 LET raw == df_.rows[j]
                 IN  /\ df[i].x = raw.BPOGX
                     /\ df[i].y = raw.BPOGY
                     /\ df[i].user_id = C7Viewer
                     /\ df[i].image_name =
                           (IF is_new_data
                            THEN raw.MEDIA_NAME
                            ELSE <<"b", "l", "o", "c", "k", " ">> \o C7Block
                                     \o <<"/">> \o raw.MEDIA_NAME)

\* C7 witness: a legacy-layout session of block 07 and viewer 042 gave a row
\* whose image name is "block 07/img1".
C7_Witness ==
    /\ pc = "for"
    /\ idx >= 1
    /\ Len(all_dataframes) = idx
    /\ ~is_new_data
    /\ Len(df) >= 1
    /\ df[1].image_name = <<"b", "l", "o", "c", "k", " ", "0", "7", "/", "i", "m", "g", "1">>
    /\ df[1].user_id = <<"0", "4", "2">>

\* C8: a candidate file that fails (its name does not match, a required
\* column is missing, or the duration is asked for) ends the whole run with
\* that error and nothing is returned; a run that returns has a table of
\* every candidate file.
C8_FailureAbortsRun ==
    /\ (idx >= 1 /\ pc # "findall" /\ FindAll(file_name) = <<>>)
          => (pc = "raised" /\ error = "IndexError")
    /\ ~(RequiredColumns \subseteq df_.cols)
          => (pc = "raised" /\ error = "KeyError")
    /\ (calculate_fixation_duration /\ pc \notin {"glob", "for", "findall", "read_csv", "duration"})
          => (pc = "raised")
    /\ (error # "none") => (pc = "raised")
    /\ (pc = "raised") => (error # "none" /\ result = <<>>)
    /\ (pc = "returned")
          => /\ error = "none"
             /\ Len(all_dataframes) = Len(files)
             /\ \A i \in 1..Len(files) : FindAll(files[i]) # <<>>

\* C8 witness: the second file lacks a column after the first gave a table
\* with rows; the run has ended in KeyError and nothing is returned.
C8_Witness ==
    /\ pc = "raised"
    /\ error = "KeyError"
    /\ Len(all_dataframes) = 1
    /\ Len(all_dataframes[1]) >= 1
    /\ result = <<>>

C10_ConcatenationAccumulates ==
    (pc = "returned")
        => LET corpus == result[1]
               n == Len(all_dataframes)
               keys == KeysOf(corpus) \cup UNION {KeysOf(all_dataframes[i]) : i \in 1..n}
               rows == {corpus[i] : i \in 1..Len(corpus)}
                          \cup UNION {{all_dataframes[i][j] : j \in 1..Len(all_dataframes[i])}
                                         : i \in 1..n}
           IN  /\ n = Len(files)
               /\ \A k \in keys :
                     Len(RowsOfKey(corpus, k)) =
                        SumOver([i \in 1..n |-> Len(RowsOfKey(all_dataframes[i], k))], n)
               /\ \A r \in rows :
                     Occurrences(corpus, r) =
                        SumOver([i \in 1..n |-> Occurrences(all_dataframes[i], r)], n)

\* C10 witness: two sessions gave the same rows for the same key and the
\* corpus holds them twice.
C10_Witness ==
    /\ pc = "returned"
    /\ Len(all_dataframes) = 2
    /\ Len(all_dataframes[1]) >= 1
    /\ all_dataframes[1] = all_dataframes[2]
    /\ Len(result[1]) = 2 * Len(all_dataframes[1])

====
